---- MODULE Spec2Model ----
(***************************************************************************)
(* Server actions of the saas-starter application (sign-in, sign-up,       *)
(* password update, account deletion, account update, team-member removal, *)
(* team-member invitation) over the users / teams / team_members /         *)
(* invitations / activity_logs tables and the per-browser session cookie.  *)
(*                                                                         *)
(* Every request is a process: it is started by a client (a browser with   *)
(* its own cookie jar) and then advances one database statement at a time, *)
(* one step per `await` of the handler.  Spec runs the requests one after  *)
(* the other (a request starts only when no other is in flight); SpecC     *)
(* lets the requests of different clients interleave between statements.   *)
(***************************************************************************)
EXTENDS Integers, Sequences, FiniteSets, TLC

VARIABLES users, teams, teamMembers, memberSeq, invitations, activityLogs,
          cookie, req, nreq, softDeleted

vars == <<users, teams, teamMembers, memberSeq, invitations, activityLogs,
          cookie, req, nreq, softDeleted>>

(* softDeleted is a history variable, read by no action: the accounts that *)
(* deleteAccount has soft-deleted, each with the email it had just before. *)

(* The five tables: everything the handlers share. *)
DB == [users |-> users, teams |-> teams, teamMembers |-> teamMembers,
       invitations |-> invitations, activityLogs |-> activityLogs]

(* What a request is compared with when it is done: the tables and the     *)
(* client's cookie as they were when it started.                           *)
Snap(c) == [db |-> DB, cookie |-> cookie[c]]

-----------------------------------------------------------------------------
(* Bounds *)

\* requests started in a run of Spec (sequential requests)
MaxReq == 3
\* requests started in a run of SpecC (interleaved requests)
MaxConc == 2
\* requests started in a run of SpecInvited, after the two that lead to its
\* initial state
MaxInvited == 3
\* requests started in a run of SpecShared: interleaved ones, then, once
\* these are answered, further ones
MaxShared == 2
MaxAfter == 1

Clients == {"c1", "c2"}

-----------------------------------------------------------------------------
(* Inputs.  A string that the code takes apart (an email) is a sequence of *)
(* tokens, so that email.split("@")[0] and CONCAT(email, '-', id,          *)
(* '-deleted') are computed, not assumed.                                  *)

EmailA == <<"a", "@", "x.com">>
EmailB == <<"b", "@", "x.com">>
EmailA2 == <<"a", "@", "y.org">>
BadEmail == <<"nobody">>
Emails == {EmailA, EmailB, EmailA2, BadEmail}

Passwords == {"password123", "hunter2hunter2", "short"}

Roles == {"MEMBER", "ADMIN", "OWNER"}

Null == "null"

\* a null id (ids are serial, from 1)
NoTeam == 0

\* inviteId form field: absent, or the decimal string of an invitation id
InviteIds == {Null, "1", "2"}

Names == {"Ann", ""}

-----------------------------------------------------------------------------
(* Schemas (zod) *)

CountAt(s) == Cardinality({i \in 1..Len(s) : s[i] = "@"})

\* z.string().email(): one "@", something before it and a dotted domain after
IsEmail(s) ==
    /\ Len(s) = 3
    /\ CountAt(s) = 1
    /\ s[2] = "@"
    /\ s[1] # ""
    /\ s[3] \in {"x.com", "y.org"}

PasswordOk(p) == Len(p) >= 8 /\ Len(p) <= 100

signUpSchema(email, password) == IsEmail(email) /\ Len(password) >= 8

signInSchema(email, password) == IsEmail(email) /\ PasswordOk(password)

updatePasswordSchema(cur, new, confirm) ==
    PasswordOk(cur) /\ PasswordOk(new) /\ PasswordOk(confirm) /\ new = confirm

deleteAccountSchema(password) == PasswordOk(password)

updateAccountSchema(name, email) == Len(name) >= 1 /\ Len(name) <= 100 /\ IsEmail(email)

inviteTeamMemberSchema(email, role) == IsEmail(email) /\ role \in Roles

\* a memberId field that holds no number
NotANumber == -1

\* z.number()
removeTeamMemberSchema(memberId) == memberId \in Int /\ memberId # NotANumber

-----------------------------------------------------------------------------
(* Results of an action *)

Err(m) == [kind |-> "error", msg |-> m]
Ok(m) == [kind |-> "success", msg |-> m]
Redirect(path) == [kind |-> "redirect", msg |-> path]
Checkout(t) == [kind |-> "checkout", msg |-> ToString(t)]
Thrown(m) == [kind |-> "thrown", msg |-> m]
NoResult == [kind |-> "none", msg |-> ""]

InvalidCredentials == "Invalid email or password. Please try again."
FailedToCreateUser == "Failed to create user. Please try again."
InvalidInvitation == "Invalid or expired invitation."
NotInTeam == "User is not part of a team"
SamePassword == "New password must be different from the current password."

-----------------------------------------------------------------------------
(* Collaborators that live outside the action file *)

\* bcrypt digest of a plaintext; verification recomputes it
hashPassword(p) == <<"bcrypt", p>>

comparePasswords(p, digest) == digest = hashPassword(p)

\* (variant: no unique index)
UniqueViolationNever(us, email, self) == FALSE

\* users.email carries a unique index: an insert or update that would give
\* two rows the same email is refused by the database (the statement throws)
UniqueViolation(us, email, self) ==
    \E i \in 1..Len(us) : i # self /\ us[i].email = email

\* (variant: a soft-deleted row still counts)
getUserDeletedToo(c) ==
    IF cookie[c] # 0 /\ cookie[c] <= Len(users) THEN cookie[c] ELSE 0

\* the current user: the session cookie's user, if that row is not soft-deleted
getUser(c) ==
    IF cookie[c] # 0 /\ cookie[c] <= Len(users) /\ users[cookie[c]].deletedAt = Null
    THEN cookie[c] ELSE 0

\* users LEFT JOIN team_members WHERE users.id = uid LIMIT 1: the teamId of
\* one membership row of the user, or null
TeamIdsOf(uid) ==
    LET ms == {m \in teamMembers : m.userId = uid}
    IN  IF ms = {} THEN {NoTeam} ELSE {m.teamId : m \in ms}

-----------------------------------------------------------------------------
(* Statements of the action file *)

\* (variant: no test for a missing team)
LogActivityAlways(logs, teamId, userId, type) ==
    Append(logs, [teamId |-> teamId, userId |-> userId,
                  action |-> type, ipAddress |-> ""])

\* logActivity: nothing is written without a team
LogActivity(logs, teamId, userId, type) ==
    IF teamId = NoTeam
    THEN logs
    ELSE Append(logs, [teamId |-> teamId, userId |-> userId,
                       action |-> type, ipAddress |-> ""])

\* email.split("@")[0]
RECURSIVE LocalPart(_)
LocalPart(email) ==
    IF email = <<>> \/ Head(email) = "@"
    THEN <<>>
    ELSE <<Head(email)>> \o LocalPart(Tail(email))

\* (variant: the whole address instead of its local part)
TeamNameWholeEmail(email) == email \o <<"'s Team">>

TeamName(email) == LocalPart(email) \o <<"'s Team">>

\* (variant: the email is kept)
SoftDeletedEmailKept(email, id) == email

\* CONCAT(email, '-', id, '-deleted')
SoftDeletedEmail(email, id) == email \o <<"-", ToString(id), "-deleted">>

NewUser(email, digest) ==
    [email |-> email, passwordHash |-> digest, role |-> "OWNER",
     name |-> Null, deletedAt |-> Null]

\* parseInt(inviteId)
ParseInt(s) == CASE s = "1" -> 1 [] s = "2" -> 2 [] s = "3" -> 3 [] OTHER -> 0

\* (variant: the status is not looked at)
MatchingInvitationsAnyStatus(inviteId, email) ==
    {i \in 1..Len(invitations) :
        /\ i = ParseInt(inviteId)
        /\ invitations[i].email = email}

\* the pending invitations with this id and this email
MatchingInvitations(inviteId, email) ==
    {i \in 1..Len(invitations) :
        /\ i = ParseInt(inviteId)
        /\ invitations[i].email = email
        /\ invitations[i].status = "pending"}

-----------------------------------------------------------------------------
(* Requests *)

Idle == [op |-> "idle", pc |-> "idle"]

Quiet == \A c \in Clients : req[c] = Idle

Set(c, r) == req' = [req EXCEPT ![c] = r]

Goto(c, pc) == req' = [req EXCEPT ![c].pc = pc]

Finish(c, result) == req' = [req EXCEPT ![c].pc = "done", ![c].res = result]

UnchangedDB ==
    UNCHANGED <<users, teams, teamMembers, memberSeq, invitations, activityLogs,
                softDeleted>>

\* a client sends a request: the counter bounds the run
Begin == nreq' = nreq + 1

Init ==
    /\ users = <<>>
    /\ teams = <<>>
    /\ teamMembers = {}
    /\ memberSeq = 0
    /\ invitations = <<>>
    /\ activityLogs = <<>>
    /\ cookie = [c \in Clients |-> 0]
    /\ req = [c \in Clients |-> Idle]
    /\ nreq = 0
    /\ softDeleted = {}

ValidationError == Err("validation")

\* `if (inviteId)`: undefined and the empty string are falsy
Truthy(s) == s # Null /\ s # ""

-----------------------------------------------------------------------------
(* signUp *)

\* (variant: no lookup)
EmailRegisteredIgnored(email) == FALSE

\* SELECT ... FROM users WHERE email = $email LIMIT 1; existingUser.length > 0
EmailRegistered(email) == \E i \in 1..Len(users) : users[i].email = email

\* validation, then the existing-user check
SignUpStart(c, email, password, inviteId, checkout) ==
    LET r == [op |-> "signUp", pc |-> "su_insert", email |-> email,
              password |-> password, inviteId |-> inviteId,
              checkout |-> checkout, user |-> 0, teamId |-> NoTeam,
              userRole |-> Null, invitation |-> 0, res |-> NoResult, pre |-> Snap(c)]
    IN  /\ Begin
        /\ IF ~signUpSchema(email, password)
           THEN Set(c, [r EXCEPT !.pc = "done", !.res = ValidationError])
           ELSE IF EmailRegistered(email)
                THEN Set(c, [r EXCEPT !.pc = "done", !.res = Err(FailedToCreateUser)])
                ELSE Set(c, r)
        /\ UnchangedDB
        /\ UNCHANGED cookie

\* INSERT INTO users ... RETURNING
SignUpInsertUser(c) ==
    /\ req[c].pc = "su_insert"
    /\ IF UniqueViolation(users, req[c].email, 0)
       THEN /\ Finish(c, Thrown("users_email_unique"))
            /\ UNCHANGED users
       ELSE /\ users' = Append(users, NewUser(req[c].email, hashPassword(req[c].password)))
            /\ req' = [req EXCEPT ![c].user = Len(users) + 1,
                                  ![c].pc = IF Truthy(req[c].inviteId)
                                            THEN "su_inv_select" ELSE "su_team_insert"]
    /\ UNCHANGED <<teams, teamMembers, memberSeq, invitations, activityLogs, cookie, nreq, softDeleted>>

\* (variant: the user row is taken back when the invitation is refused)
SignUpSelectInvitationRollback(c) ==
    /\ req[c].pc = "su_inv_select"
    /\ LET m == MatchingInvitations(req[c].inviteId, req[c].email)
       IN  IF m = {}
           THEN /\ Finish(c, Err(InvalidInvitation))
                /\ users' = SubSeq(users, 1, Len(users) - 1)
           ELSE /\ \E i \in m :
                     req' = [req EXCEPT ![c].invitation = i,
                                        ![c].teamId = invitations[i].teamId,
                                        ![c].userRole = invitations[i].role,
                                        ![c].pc = "su_inv_update"]
                /\ UNCHANGED users
    /\ UNCHANGED <<teams, teamMembers, memberSeq, invitations, activityLogs,
                   cookie, nreq, softDeleted>>

\* SELECT ... FROM invitations WHERE id, email, status = 'pending' LIMIT 1
SignUpSelectInvitation(c) ==
    /\ req[c].pc = "su_inv_select"
    /\ LET m == MatchingInvitations(req[c].inviteId, req[c].email)
       IN  IF m = {}
           THEN Finish(c, Err(InvalidInvitation))
           ELSE \E i \in m :
                  req' = [req EXCEPT ![c].invitation = i,
                                     ![c].teamId = invitations[i].teamId,
                                     ![c].userRole = invitations[i].role,
                                     ![c].pc = "su_inv_update"]
    /\ UnchangedDB
    /\ UNCHANGED <<cookie, nreq>>

\* (variant: the invitation is left pending)
SignUpAcceptInvitationSkipped(c) ==
    /\ req[c].pc = "su_inv_update"
    /\ Goto(c, "su_inv_log")
    /\ UnchangedDB
    /\ UNCHANGED <<cookie, nreq>>

\* UPDATE invitations SET status = 'accepted' WHERE id = $invitation.id
SignUpAcceptInvitation(c) ==
    /\ req[c].pc = "su_inv_update"
    /\ invitations' = [invitations EXCEPT ![req[c].invitation].status = "accepted"]
    /\ Goto(c, "su_inv_log")
    /\ UNCHANGED <<users, teams, teamMembers, memberSeq, activityLogs, cookie, nreq, softDeleted>>

\* logActivity(ACCEPT_INVITATION), then SELECT the team (teams never change)
SignUpLogAccept(c) ==
    /\ req[c].pc = "su_inv_log"
    /\ activityLogs' = LogActivity(activityLogs, req[c].teamId, req[c].user,
                                   "ACCEPT_INVITATION")
    /\ Goto(c, "su_join")
    /\ UNCHANGED <<users, teams, teamMembers, memberSeq, invitations, cookie, nreq, softDeleted>>

\* INSERT INTO teams ... RETURNING
SignUpInsertTeam(c) ==
    /\ req[c].pc = "su_team_insert"
    /\ teams' = Append(teams, [name |-> TeamName(req[c].email)])
    /\ req' = [req EXCEPT ![c].teamId = Len(teams) + 1,
                          ![c].userRole = "OWNER",
                          ![c].pc = "su_team_log"]
    /\ UNCHANGED <<users, teamMembers, memberSeq, invitations, activityLogs, cookie, nreq, softDeleted>>

\* (variant: the creation of the team is not logged)
SignUpLogCreateTeamSkipped(c) ==
    /\ req[c].pc = "su_team_log"
    /\ Goto(c, "su_join")
    /\ UnchangedDB
    /\ UNCHANGED <<cookie, nreq>>

\* logActivity(CREATE_TEAM)
SignUpLogCreateTeam(c) ==
    /\ req[c].pc = "su_team_log"
    /\ activityLogs' = LogActivity(activityLogs, req[c].teamId, req[c].user, "CREATE_TEAM")
    /\ Goto(c, "su_join")
    /\ UNCHANGED <<users, teams, teamMembers, memberSeq, invitations, cookie, nreq, softDeleted>>

\* (variant: the team-member row is inserted twice)
SignUpJoinTwice(c) ==
    /\ req[c].pc = "su_join"
    /\ teamMembers' = teamMembers \cup
           {[id |-> memberSeq + k, userId |-> req[c].user,
             teamId |-> req[c].teamId, role |-> req[c].userRole] : k \in 1..2}
    /\ memberSeq' = memberSeq + 2
    /\ activityLogs' = LogActivity(activityLogs, req[c].teamId, req[c].user, "SIGN_UP")
    /\ cookie' = [cookie EXCEPT ![c] = req[c].user]
    /\ Finish(c, IF req[c].checkout THEN Checkout(req[c].teamId)
                 ELSE Redirect("/dashboard"))
    /\ UNCHANGED <<users, teams, invitations, nreq, softDeleted>>

\* Promise.all([INSERT INTO team_members, logActivity(SIGN_UP), setSession]),
\* then the redirect
SignUpJoin(c) ==
    /\ req[c].pc = "su_join"
    /\ teamMembers' = teamMembers \cup
           {[id |-> memberSeq + 1, userId |-> req[c].user,
             teamId |-> req[c].teamId, role |-> req[c].userRole]}
    /\ memberSeq' = memberSeq + 1
    /\ activityLogs' = LogActivity(activityLogs, req[c].teamId, req[c].user, "SIGN_UP")
    /\ cookie' = [cookie EXCEPT ![c] = req[c].user]
    /\ Finish(c, IF req[c].checkout THEN Checkout(req[c].teamId)
                 ELSE Redirect("/dashboard"))
    /\ UNCHANGED <<users, teams, invitations, nreq, softDeleted>>

-----------------------------------------------------------------------------
(* signIn *)

\* the rows of users LEFT JOIN team_members LEFT JOIN teams WHERE email = $email
SignInRows(email) ==
    {<<u, t>> \in (1..Len(users)) \X (0..Len(teams)) :
        users[u].email = email /\ t \in TeamIdsOf(u)}

\* (variant: the two failures are told apart)
SignInErrorLeaky(cause) ==
    CASE cause = "no_user" -> Err("No account with this email.")
      [] cause = "bad_password" -> Err(InvalidCredentials)

\* the two failing returns of signIn: no row for the email ("no_user") and a
\* password that does not verify ("bad_password")
SignInError(cause) ==
    CASE cause = "no_user" -> Err(InvalidCredentials)
      [] cause = "bad_password" -> Err(InvalidCredentials)

\* (variant: the form is not validated)
SignInStartUnvalidated(c, email, password, checkout) ==
    LET r == [op |-> "signIn", pc |-> "si_session", email |-> email,
              password |-> password, checkout |-> checkout, user |-> 0,
              teamId |-> NoTeam, res |-> NoResult, pre |-> Snap(c)]
    IN  /\ Begin
        /\ IF SignInRows(email) = {}
           THEN Set(c, [r EXCEPT !.pc = "done", !.res = SignInError("no_user")])
           ELSE \E row \in SignInRows(email) :
                  IF ~comparePasswords(password, users[row[1]].passwordHash)
                  THEN Set(c, [r EXCEPT !.pc = "done",
                                        !.res = SignInError("bad_password")])
                  ELSE Set(c, [r EXCEPT !.user = row[1], !.teamId = row[2]])
        /\ UnchangedDB
        /\ UNCHANGED cookie

\* (variant: the password is not verified)
SignInStartAnyPassword(c, email, password, checkout) ==
    LET r == [op |-> "signIn", pc |-> "si_session", email |-> email,
              password |-> password, checkout |-> checkout, user |-> 0,
              teamId |-> NoTeam, res |-> NoResult, pre |-> Snap(c)]
    IN  /\ Begin
        /\ IF ~signInSchema(email, password)
           THEN Set(c, [r EXCEPT !.pc = "done", !.res = ValidationError])
           ELSE IF SignInRows(email) = {}
                THEN Set(c, [r EXCEPT !.pc = "done", !.res = SignInError("no_user")])
                ELSE \E row \in SignInRows(email) :
                       Set(c, [r EXCEPT !.user = row[1], !.teamId = row[2]])
        /\ UnchangedDB
        /\ UNCHANGED cookie

\* validation, the SELECT ... LIMIT 1 and comparePasswords
SignInStart(c, email, password, checkout) ==
    LET r == [op |-> "signIn", pc |-> "si_session", email |-> email,
              password |-> password, checkout |-> checkout, user |-> 0,
              teamId |-> NoTeam, res |-> NoResult, pre |-> Snap(c)]
    IN  /\ Begin
        /\ IF ~signInSchema(email, password)
           THEN Set(c, [r EXCEPT !.pc = "done", !.res = ValidationError])
           ELSE IF SignInRows(email) = {}
                THEN Set(c, [r EXCEPT !.pc = "done", !.res = SignInError("no_user")])
                ELSE \E row \in SignInRows(email) :
                       IF ~comparePasswords(password, users[row[1]].passwordHash)
                       THEN Set(c, [r EXCEPT !.pc = "done",
                                             !.res = SignInError("bad_password")])
                       ELSE Set(c, [r EXCEPT !.user = row[1], !.teamId = row[2]])
        /\ UnchangedDB
        /\ UNCHANGED cookie

\* Promise.all([setSession, logActivity(SIGN_IN)]), then the redirect
SignInSession(c) ==
    /\ req[c].pc = "si_session"
    /\ cookie' = [cookie EXCEPT ![c] = req[c].user]
    /\ activityLogs' = LogActivity(activityLogs, req[c].teamId, req[c].user, "SIGN_IN")
    /\ Finish(c, IF req[c].checkout THEN Checkout(req[c].teamId)
                 ELSE Redirect("/dashboard"))
    /\ UNCHANGED <<users, teams, teamMembers, memberSeq, invitations, nreq, softDeleted>>

-----------------------------------------------------------------------------
(* validatedActionWithUser: the current user is resolved and the form data  *)
(* is validated; the handler gets the user row as it was read here.  Which  *)
(* of the two refusals a request without session and with a bad form gets  *)
(* is left open: either.                                                   *)

Unauthorized == Err("Unauthorized")

WithUser(c, r, valid) ==
    LET unauthorized == [r EXCEPT !.pc = "done", !.res = Unauthorized]
        invalid == [r EXCEPT !.pc = "done", !.res = ValidationError]
    IN  IF getUser(c) = 0 /\ ~valid
        THEN {unauthorized, invalid}
        ELSE IF getUser(c) = 0
             THEN {unauthorized}
             ELSE IF ~valid
                  THEN {invalid}
                  ELSE {[r EXCEPT !.user = getUser(c),
                                  !.passwordHash = users[getUser(c)].passwordHash]}

\* getUserWithTeam(user.id)
GetUserWithTeam(c, next) ==
    \E t \in TeamIdsOf(req[c].user) :
        req' = [req EXCEPT ![c].teamId = t, ![c].pc = next]

-----------------------------------------------------------------------------
(* updatePassword *)

\* (variant: no comparison)
SameAsCurrentIgnored(cur, new) == FALSE

\* currentPassword === newPassword
SameAsCurrent(cur, new) == cur = new

UpdatePasswordStart(c, cur, new, confirm) ==
    LET r0 == [op |-> "updatePassword", pc |-> "up_team", currentPassword |-> cur,
               newPassword |-> new, confirmPassword |-> confirm, user |-> 0, passwordHash |-> <<>>,
               teamId |-> NoTeam, res |-> NoResult, pre |-> Snap(c)]
    IN  /\ Begin
        /\ \E r \in WithUser(c, r0, updatePasswordSchema(cur, new, confirm)) :
           IF r.pc = "done"
           THEN Set(c, r)
           ELSE IF ~comparePasswords(cur, r.passwordHash)
                THEN Set(c, [r EXCEPT !.pc = "done",
                                      !.res = Err("Current password is incorrect.")])
                ELSE IF SameAsCurrent(cur, new)
                     THEN Set(c, [r EXCEPT !.pc = "done", !.res = Err(SamePassword)])
                     ELSE Set(c, r)
        /\ UnchangedDB
        /\ UNCHANGED cookie

UpdatePasswordTeam(c) ==
    /\ req[c].pc = "up_team"
    /\ GetUserWithTeam(c, "up_write")
    /\ UnchangedDB
    /\ UNCHANGED <<cookie, nreq>>

\* Promise.all([UPDATE users SET passwordHash, logActivity(UPDATE_PASSWORD)])
UpdatePasswordWrite(c) ==
    /\ req[c].pc = "up_write"
    /\ users' = [users EXCEPT ![req[c].user].passwordHash =
                                  hashPassword(req[c].newPassword)]
    /\ activityLogs' = LogActivity(activityLogs, req[c].teamId, req[c].user,
                                   "UPDATE_PASSWORD")
    /\ Finish(c, Ok("Password updated successfully."))
    /\ UNCHANGED <<teams, teamMembers, memberSeq, invitations, cookie, nreq, softDeleted>>

-----------------------------------------------------------------------------
(* deleteAccount *)

DeleteAccountStart(c, password) ==
    LET r0 == [op |-> "deleteAccount", pc |-> "da_team", password |-> password,
               user |-> 0, passwordHash |-> <<>>, teamId |-> NoTeam,
               res |-> NoResult, pre |-> Snap(c)]
    IN  /\ Begin
        /\ \E r \in WithUser(c, r0, deleteAccountSchema(password)) :
           IF r.pc = "done"
           THEN Set(c, r)
           ELSE IF ~comparePasswords(password, r.passwordHash)
                THEN Set(c, [r EXCEPT !.pc = "done",
                               !.res = Err("Incorrect password. Account deletion failed.")])
                ELSE Set(c, r)
        /\ UnchangedDB
        /\ UNCHANGED cookie

DeleteAccountTeam(c) ==
    /\ req[c].pc = "da_team"
    /\ GetUserWithTeam(c, "da_log")
    /\ UnchangedDB
    /\ UNCHANGED <<cookie, nreq>>

\* (variant: the deletion is not logged)
DeleteAccountLogSkipped(c) ==
    /\ req[c].pc = "da_log"
    /\ Goto(c, "da_soft")
    /\ UnchangedDB
    /\ UNCHANGED <<cookie, nreq>>

\* logActivity(DELETE_ACCOUNT)
DeleteAccountLog(c) ==
    /\ req[c].pc = "da_log"
    /\ activityLogs' = LogActivity(activityLogs, req[c].teamId, req[c].user,
                                   "DELETE_ACCOUNT")
    /\ Goto(c, "da_soft")
    /\ UNCHANGED <<users, teams, teamMembers, memberSeq, invitations, cookie, nreq, softDeleted>>

\* UPDATE users SET deletedAt = CURRENT_TIMESTAMP,
\*                  email = CONCAT(email, '-', id, '-deleted') WHERE id = $user.id
DeleteAccountSoftDelete(c) ==
    /\ req[c].pc = "da_soft"
    /\ LET u == req[c].user
           e == SoftDeletedEmail(users[u].email, u)
       IN  IF UniqueViolation(users, e, u)
           THEN /\ Finish(c, Thrown("users_email_unique"))
                /\ UNCHANGED <<users, softDeleted>>
           ELSE /\ users' = [users EXCEPT ![u].deletedAt = "CURRENT_TIMESTAMP",
                                          ![u].email = e]
                /\ softDeleted' = softDeleted \cup {[id |-> u, email |-> users[u].email]}
                /\ Goto(c, "da_member")
    /\ UNCHANGED <<teams, teamMembers, memberSeq, invitations, activityLogs, cookie, nreq>>

\* DELETE FROM team_members WHERE userId AND teamId (if the user had a team)
DeleteAccountRemoveMember(c) ==
    /\ req[c].pc = "da_member"
    /\ teamMembers' = IF req[c].teamId = NoTeam
                      THEN teamMembers
                      ELSE {m \in teamMembers :
                              ~(m.userId = req[c].user /\ m.teamId = req[c].teamId)}
    /\ Goto(c, "da_cookie")
    /\ UNCHANGED <<users, teams, memberSeq, invitations, activityLogs, cookie, nreq, softDeleted>>

\* cookies().delete("session"), redirect("/sign-in")
DeleteAccountClearSession(c) ==
    /\ req[c].pc = "da_cookie"
    /\ cookie' = [cookie EXCEPT ![c] = 0]
    /\ Finish(c, Redirect("/sign-in"))
    /\ UnchangedDB
    /\ UNCHANGED nreq

-----------------------------------------------------------------------------
(* updateAccount *)

UpdateAccountStart(c, name, email) ==
    LET r0 == [op |-> "updateAccount", pc |-> "ua_team", name |-> name,
               email |-> email, user |-> 0, passwordHash |-> <<>>,
               teamId |-> NoTeam, res |-> NoResult, pre |-> Snap(c)]
    IN  /\ Begin
        /\ \E r \in WithUser(c, r0, updateAccountSchema(name, email)) : Set(c, r)
        /\ UnchangedDB
        /\ UNCHANGED cookie

UpdateAccountTeam(c) ==
    /\ req[c].pc = "ua_team"
    /\ GetUserWithTeam(c, "ua_write")
    /\ UnchangedDB
    /\ UNCHANGED <<cookie, nreq>>

\* Promise.all([UPDATE users SET name, email, logActivity(UPDATE_ACCOUNT)]):
\* both statements are sent; the update may be refused by the unique index
UpdateAccountWrite(c) ==
    /\ req[c].pc = "ua_write"
    /\ activityLogs' = LogActivity(activityLogs, req[c].teamId, req[c].user,
                                   "UPDATE_ACCOUNT")
    /\ IF UniqueViolation(users, req[c].email, req[c].user)
       THEN /\ Finish(c, Thrown("users_email_unique"))
            /\ UNCHANGED users
       ELSE /\ users' = [users EXCEPT ![req[c].user].name = req[c].name,
                                      ![req[c].user].email = req[c].email]
            /\ Finish(c, Ok("Account updated successfully."))
    /\ UNCHANGED <<teams, teamMembers, memberSeq, invitations, cookie, nreq, softDeleted>>

-----------------------------------------------------------------------------
(* removeTeamMember *)

MemberIds == {1, 2, NotANumber}

RemoveTeamMemberStart(c, memberId) ==
    LET r0 == [op |-> "removeTeamMember", pc |-> "rm_team", memberId |-> memberId,
               user |-> 0, passwordHash |-> <<>>, teamId |-> NoTeam,
               res |-> NoResult, pre |-> Snap(c)]
    IN  /\ Begin
        /\ \E r \in WithUser(c, r0, removeTeamMemberSchema(memberId)) : Set(c, r)
        /\ UnchangedDB
        /\ UNCHANGED cookie

\* (variant: no early return)
RemoveTeamMemberTeamAlways(c) ==
    /\ req[c].pc = "rm_team"
    /\ GetUserWithTeam(c, "rm_delete")
    /\ UnchangedDB
    /\ UNCHANGED <<cookie, nreq>>

\* getUserWithTeam, and the early return without a team
RemoveTeamMemberTeam(c) ==
    /\ req[c].pc = "rm_team"
    /\ \E t \in TeamIdsOf(req[c].user) :
         IF t = NoTeam
         THEN Finish(c, Err(NotInTeam))
         ELSE req' = [req EXCEPT ![c].teamId = t, ![c].pc = "rm_delete"]
    /\ UnchangedDB
    /\ UNCHANGED <<cookie, nreq>>

\* (variant: the delete is not scoped to the team)
RemoveTeamMemberDeleteUnscoped(c) ==
    /\ req[c].pc = "rm_delete"
    /\ teamMembers' = {m \in teamMembers : m.id # req[c].memberId}
    /\ Goto(c, "rm_log")
    /\ UNCHANGED <<users, teams, memberSeq, invitations, activityLogs, cookie, nreq, softDeleted>>

\* DELETE FROM team_members WHERE id = $memberId AND teamId = $teamId
RemoveTeamMemberDelete(c) ==
    /\ req[c].pc = "rm_delete"
    /\ teamMembers' = {m \in teamMembers :
                         ~(m.id = req[c].memberId /\ m.teamId = req[c].teamId)}
    /\ Goto(c, "rm_log")
    /\ UNCHANGED <<users, teams, memberSeq, invitations, activityLogs, cookie, nreq, softDeleted>>

\* logActivity(REMOVE_TEAM_MEMBER)
RemoveTeamMemberLog(c) ==
    /\ req[c].pc = "rm_log"
    /\ activityLogs' = LogActivity(activityLogs, req[c].teamId, req[c].user,
                                   "REMOVE_TEAM_MEMBER")
    /\ Finish(c, Ok("Team member removed successfully"))
    /\ UNCHANGED <<users, teams, teamMembers, memberSeq, invitations, cookie, nreq, softDeleted>>

-----------------------------------------------------------------------------
(* inviteTeamMember *)

InviteTeamMemberStart(c, email, role) ==
    LET r0 == [op |-> "inviteTeamMember", pc |-> "iv_team", email |-> email,
               role |-> role, user |-> 0, passwordHash |-> <<>>,
               teamId |-> NoTeam, res |-> NoResult, pre |-> Snap(c)]
    IN  /\ Begin
        /\ \E r \in WithUser(c, r0, inviteTeamMemberSchema(email, role)) : Set(c, r)
        /\ UnchangedDB
        /\ UNCHANGED cookie

InviteTeamMemberTeam(c) ==
    /\ req[c].pc = "iv_team"
    /\ \E t \in TeamIdsOf(req[c].user) :
         IF t = NoTeam
         THEN Finish(c, Err(NotInTeam))
         ELSE req' = [req EXCEPT ![c].teamId = t, ![c].pc = "iv_member"]
    /\ UnchangedDB
    /\ UNCHANGED <<cookie, nreq>>

\* SELECT ... FROM users LEFT JOIN team_members WHERE email AND teamId LIMIT 1
InviteTeamMemberCheckMember(c) ==
    /\ req[c].pc = "iv_member"
    /\ IF \E m \in teamMembers :
            /\ m.teamId = req[c].teamId
            /\ users[m.userId].email = req[c].email
       THEN Finish(c, Err("User is already a member of this team"))
       ELSE Goto(c, "iv_pending")
    /\ UnchangedDB
    /\ UNCHANGED <<cookie, nreq>>

\* (variant: a pending invitation is not looked for)
InviteTeamMemberCheckPendingSkipped(c) ==
    /\ req[c].pc = "iv_pending"
    /\ Goto(c, "iv_insert")
    /\ UnchangedDB
    /\ UNCHANGED <<cookie, nreq>>

\* SELECT ... FROM invitations WHERE email AND teamId AND status = 'pending'
InviteTeamMemberCheckPending(c) ==
    /\ req[c].pc = "iv_pending"
    /\ IF \E i \in 1..Len(invitations) :
            /\ invitations[i].email = req[c].email
            /\ invitations[i].teamId = req[c].teamId
            /\ invitations[i].status = "pending"
       THEN Finish(c, Err("An invitation has already been sent to this email"))
       ELSE Goto(c, "iv_insert")
    /\ UnchangedDB
    /\ UNCHANGED <<cookie, nreq>>

\* INSERT INTO invitations
InviteTeamMemberInsert(c) ==
    /\ req[c].pc = "iv_insert"
    /\ invitations' = Append(invitations,
           [teamId |-> req[c].teamId, email |-> req[c].email, role |-> req[c].role,
            invitedBy |-> req[c].user, status |-> "pending"])
    /\ Goto(c, "iv_log")
    /\ UNCHANGED <<users, teams, teamMembers, memberSeq, activityLogs, cookie, nreq, softDeleted>>

\* logActivity(INVITE_TEAM_MEMBER)
InviteTeamMemberLog(c) ==
    /\ req[c].pc = "iv_log"
    /\ activityLogs' = LogActivity(activityLogs, req[c].teamId, req[c].user,
                                   "INVITE_TEAM_MEMBER")
    /\ Finish(c, Ok("Invitation sent successfully"))
    /\ UNCHANGED <<users, teams, teamMembers, memberSeq, invitations, cookie, nreq, softDeleted>>

-----------------------------------------------------------------------------
(* signOut *)

\* getUser() as User: without a current user, user.id throws
SignOutStart(c) ==
    LET r == [op |-> "signOut", pc |-> "so_team", user |-> getUser(c),
              teamId |-> NoTeam, res |-> NoResult, pre |-> Snap(c)]
    IN  /\ Begin
        /\ IF getUser(c) = 0
           THEN Set(c, [r EXCEPT !.pc = "done", !.res = Thrown("TypeError")])
           ELSE Set(c, r)
        /\ UnchangedDB
        /\ UNCHANGED cookie

SignOutTeam(c) ==
    /\ req[c].pc = "so_team"
    /\ GetUserWithTeam(c, "so_log")
    /\ UnchangedDB
    /\ UNCHANGED <<cookie, nreq>>

\* logActivity(SIGN_OUT), cookies().delete("session")
SignOutLog(c) ==
    /\ req[c].pc = "so_log"
    /\ activityLogs' = LogActivity(activityLogs, req[c].teamId, req[c].user, "SIGN_OUT")
    /\ cookie' = [cookie EXCEPT ![c] = 0]
    /\ Finish(c, Ok("signed out"))
    /\ UNCHANGED <<users, teams, teamMembers, memberSeq, invitations, nreq, softDeleted>>

-----------------------------------------------------------------------------
(* Specifications *)

\* The forms a client submits: every combination of well-formed fields, and
\* for each schema one form per way of failing it.
GoodEmails == {e \in Emails : IsEmail(e)}
GoodPasswords == {p \in Passwords : PasswordOk(p)}

SignUpForms ==
    (GoodEmails \X GoodPasswords \X InviteIds \X BOOLEAN)
    \cup {<<BadEmail, "password123", Null, FALSE>>, <<EmailA, "short", Null, FALSE>>}

SignInForms ==
    (GoodEmails \X GoodPasswords \X BOOLEAN)
    \cup {<<BadEmail, "password123", FALSE>>, <<EmailA, "short", FALSE>>}

UpdatePasswordForms ==
    {<<p, q, q>> : p \in GoodPasswords, q \in GoodPasswords}
    \cup {<<"short", "password123", "password123">>,
          <<"password123", "short", "short">>,
          <<"password123", "hunter2hunter2", "password123">>}

UpdateAccountForms ==
    ({"Ann"} \X GoodEmails) \cup {<<"", EmailA>>, <<"Ann", BadEmail>>}

InviteForms ==
    (GoodEmails \X Roles) \cup {<<BadEmail, "MEMBER">>}

\* a client submits a form
Start(c) ==
    \/ \E f \in SignUpForms : SignUpStart(c, f[1], f[2], f[3], f[4])
    \/ \E f \in SignInForms : SignInStart(c, f[1], f[2], f[3])
    \/ SignOutStart(c)
    \/ \E f \in UpdatePasswordForms : UpdatePasswordStart(c, f[1], f[2], f[3])
    \/ \E p \in Passwords : DeleteAccountStart(c, p)
    \/ \E f \in UpdateAccountForms : UpdateAccountStart(c, f[1], f[2])
    \/ \E m \in MemberIds : RemoveTeamMemberStart(c, m)
    \/ \E f \in InviteForms : InviteTeamMemberStart(c, f[1], f[2])

\* a request in flight runs its next statement
Step(c) ==
    \/ SignUpInsertUser(c)
    \/ SignUpSelectInvitation(c)
    \/ SignUpAcceptInvitation(c)
    \/ SignUpLogAccept(c)
    \/ SignUpInsertTeam(c)
    \/ SignUpLogCreateTeam(c)
    \/ SignUpJoin(c)
    \/ SignInSession(c)
    \/ SignOutTeam(c)
    \/ SignOutLog(c)
    \/ UpdatePasswordTeam(c)
    \/ UpdatePasswordWrite(c)
    \/ DeleteAccountTeam(c)
    \/ DeleteAccountLog(c)
    \/ DeleteAccountSoftDelete(c)
    \/ DeleteAccountRemoveMember(c)
    \/ DeleteAccountClearSession(c)
    \/ UpdateAccountTeam(c)
    \/ UpdateAccountWrite(c)
    \/ RemoveTeamMemberTeam(c)
    \/ RemoveTeamMemberDelete(c)
    \/ RemoveTeamMemberLog(c)
    \/ InviteTeamMemberTeam(c)
    \/ InviteTeamMemberCheckMember(c)
    \/ InviteTeamMemberCheckPending(c)
    \/ InviteTeamMemberInsert(c)
    \/ InviteTeamMemberLog(c)

\* the client has the response; it may send its next request
Respond(c) ==
    /\ req[c].pc = "done"
    /\ req' = [req EXCEPT ![c] = Idle]
    /\ UnchangedDB
    /\ UNCHANGED <<cookie, nreq>>

\* one request at a time
Next ==
    \E c \in Clients :
        \/ Quiet /\ nreq < MaxReq /\ Start(c)
        \/ Step(c)
        \/ Respond(c)

Spec == Init /\ [][Next]_vars

\* requests of different clients interleave between statements
NextC ==
    \E c \in Clients :
        \/ req[c] = Idle /\ nreq < MaxConc /\ Start(c)
        \/ Step(c)
        \/ Respond(c)

\* The state after a@x.com has signed up on c1 (password123, no inviteId) and
\* has invited b@x.com as MEMBER: the starting point for the life of an
\* invitation.  Spec reaches this state (InvitedReachable).
InitInvited ==
    /\ users = <<NewUser(EmailA, hashPassword("password123"))>>
    /\ teams = <<[name |-> TeamName(EmailA)]>>
    /\ teamMembers = {[id |-> 1, userId |-> 1, teamId |-> 1, role |-> "OWNER"]}
    /\ memberSeq = 1
    /\ invitations = <<[teamId |-> 1, email |-> EmailB, role |-> "MEMBER",
                        invitedBy |-> 1, status |-> "pending"]>>
    /\ activityLogs =
         LogActivity(LogActivity(LogActivity(<<>>, 1, 1, "CREATE_TEAM"),
                                 1, 1, "SIGN_UP"), 1, 1, "INVITE_TEAM_MEMBER")
    /\ cookie = [c \in Clients |-> IF c = "c1" THEN 1 ELSE 0]
    /\ req = [c \in Clients |-> Idle]
    /\ nreq = 0
    /\ softDeleted = {}

NextInvited ==
    \E c \in Clients :
        \/ Quiet /\ nreq < MaxInvited /\ Start(c)
        \/ Step(c)
        \/ Respond(c)

SpecInvited == InitInvited /\ [][NextInvited]_vars

\* interleaved requests, from the empty database and from the state above
SpecC == (Init \/ InitInvited) /\ [][NextC]_vars

\* The state above after a@x.com has also signed in on c2: two browsers hold
\* a session of the same user.  SpecInvited reaches this state
\* (SharedReachable).
InitShared ==
    /\ users = <<NewUser(EmailA, hashPassword("password123"))>>
    /\ teams = <<[name |-> TeamName(EmailA)]>>
    /\ teamMembers = {[id |-> 1, userId |-> 1, teamId |-> 1, role |-> "OWNER"]}
    /\ memberSeq = 1
    /\ invitations = <<[teamId |-> 1, email |-> EmailB, role |-> "MEMBER",
                        invitedBy |-> 1, status |-> "pending"]>>
    /\ activityLogs =
         LogActivity(LogActivity(LogActivity(LogActivity(<<>>,
             1, 1, "CREATE_TEAM"), 1, 1, "SIGN_UP"), 1, 1, "INVITE_TEAM_MEMBER"),
             1, 1, "SIGN_IN")
    /\ cookie = [c \in Clients |-> 1]
    /\ req = [c \in Clients |-> Idle]
    /\ nreq = 0
    /\ softDeleted = {}

\* the requests of the two browsers interleave; when they are answered a
\* browser sends a further request
NextShared ==
    \E c \in Clients :
        \/ req[c] = Idle /\ nreq < MaxShared /\ Start(c)
        \/ Quiet /\ nreq >= MaxShared /\ nreq < MaxShared + MaxAfter /\ Start(c)
        \/ Step(c)
        \/ Respond(c)

SpecShared == InitShared /\ [][NextShared]_vars

\* the initial state of SpecShared, but for the request counter
SharedReachable ==
    /\ users = <<NewUser(EmailA, hashPassword("password123"))>>
    /\ teams = <<[name |-> TeamName(EmailA)]>>
    /\ teamMembers = {[id |-> 1, userId |-> 1, teamId |-> 1, role |-> "OWNER"]}
    /\ memberSeq = 1
    /\ invitations = <<[teamId |-> 1, email |-> EmailB, role |-> "MEMBER",
                        invitedBy |-> 1, status |-> "pending"]>>
    /\ activityLogs =
         LogActivity(LogActivity(LogActivity(LogActivity(<<>>,
             1, 1, "CREATE_TEAM"), 1, 1, "SIGN_UP"), 1, 1, "INVITE_TEAM_MEMBER"),
             1, 1, "SIGN_IN")
    /\ cookie = [c \in Clients |-> 1]
    /\ req = [c \in Clients |-> Idle]
    /\ softDeleted = {}

\* the initial state of SpecInvited, but for the request counter
InvitedReachable ==
    /\ users = <<NewUser(EmailA, hashPassword("password123"))>>
    /\ teams = <<[name |-> TeamName(EmailA)]>>
    /\ teamMembers = {[id |-> 1, userId |-> 1, teamId |-> 1, role |-> "OWNER"]}
    /\ memberSeq = 1
    /\ invitations = <<[teamId |-> 1, email |-> EmailB, role |-> "MEMBER",
                        invitedBy |-> 1, status |-> "pending"]>>
    /\ activityLogs =
         LogActivity(LogActivity(LogActivity(<<>>, 1, 1, "CREATE_TEAM"),
                                 1, 1, "SIGN_UP"), 1, 1, "INVITE_TEAM_MEMBER")
    /\ cookie = [c \in Clients |-> IF c = "c1" THEN 1 ELSE 0]
    /\ req = [c \in Clients |-> Idle]
    /\ softDeleted = {}

-----------------------------------------------------------------------------
(* Properties.  A finished request is read in the state where its result  *)
(* is ready (pc = "done"): req[c].pre is the database and the cookie as   *)
(* the request found them.                                                *)

Done(c, op) == req[c].op = op /\ req[c].pc = "done"

Succeeded(c) == req[c].res.kind \in {"redirect", "checkout"}

RegisteredIn(us, email) == \E i \in 1..Len(us) : us[i].email = email

\* C1: a signUp with a schema-valid email and password, no inviteId and an
\* email that no user row holds creates one user and one team; the team is
\* named <local part>'s Team and the new user has a team-member row in it
\* with role OWNER.
C1_SignUpCreatesOwnTeam ==
    \A c \in Clients :
        (/\ Done(c, "signUp")
         /\ signUpSchema(req[c].email, req[c].password)
         /\ ~Truthy(req[c].inviteId)
         /\ ~RegisteredIn(req[c].pre.db.users, req[c].email))
        => /\ Succeeded(c)
           /\ Len(users) = Len(req[c].pre.db.users) + 1
           /\ users[Len(users)].email = req[c].email
           /\ Len(teams) = Len(req[c].pre.db.teams) + 1
           /\ teams[Len(teams)].name = <<req[c].email[1], "'s Team">>
           /\ \E m \in teamMembers \ req[c].pre.db.teamMembers :
                /\ m.userId = Len(users)
                /\ m.teamId = Len(teams)
                /\ m.role = "OWNER"

\* a second sign-up, a@y.org, has created the second team, named a's Team
C1_Witness ==
    \E c \in Clients :
        /\ Done(c, "signUp")
        /\ req[c].email = EmailA2
        /\ req[c].inviteId = Null
        /\ Succeeded(c)
        /\ Len(teams) = 2
        /\ teams[2].name = <<"a", "'s Team">>
        /\ \E m \in teamMembers : m.userId = Len(users) /\ m.teamId = 2 /\ m.role = "OWNER"

InvitedBy(c) == ParseInt(req[c].inviteId)

\* the request presents the id of an invitation that was pending, for its email
PresentsPendingInvitation(c) ==
    /\ Done(c, "signUp")
    /\ Truthy(req[c].inviteId)
    /\ InvitedBy(c) \in 1..Len(req[c].pre.db.invitations)
    /\ req[c].pre.db.invitations[InvitedBy(c)].status = "pending"
    /\ req[c].pre.db.invitations[InvitedBy(c)].email = req[c].email

\* the request has created a user who joined the invitation's team, with the
\* invitation's role and no other; the invitation is accepted, no team was
\* created and ACCEPT_INVITATION is logged for that team and user
JoinedByInvitation(c) ==
    LET inv == req[c].pre.db.invitations[InvitedBy(c)]
        u == Len(users)
    IN  /\ Len(users) = Len(req[c].pre.db.users) + 1
        /\ users[u].email = req[c].email
        /\ \E m \in teamMembers \ req[c].pre.db.teamMembers :
             m.userId = u /\ m.teamId = inv.teamId /\ m.role = inv.role
        /\ \A m \in teamMembers :
             m.userId = u => m.teamId = inv.teamId /\ m.role = inv.role
        /\ invitations[InvitedBy(c)].status = "accepted"
        /\ teams = req[c].pre.db.teams
        /\ \E k \in 1..Len(activityLogs) :
             /\ activityLogs[k].action = "ACCEPT_INVITATION"
             /\ activityLogs[k].teamId = inv.teamId
             /\ activityLogs[k].userId = u

\* C2, as claimed: every signUp whose inviteId identifies a pending invitation
\* for the sign-up email ends with the new user in the invitation's team with
\* the invitation's role, the invitation accepted, no new team and an
\* ACCEPT_INVITATION log row.
C2_AsClaimed ==
    \A c \in Clients : PresentsPendingInvitation(c) => JoinedByInvitation(c)

\* C2, amended: the same, for a signUp whose email and password pass the
\* schema and whose email no user row holds yet.
C2_InvitedSignUpJoinsTeam ==
    \A c \in Clients :
        (/\ PresentsPendingInvitation(c)
         /\ signUpSchema(req[c].email, req[c].password)
         /\ ~RegisteredIn(req[c].pre.db.users, req[c].email))
        => Succeeded(c) /\ JoinedByInvitation(c)

\* b@x.com, invited as MEMBER, has signed up with the invitation
C2_Witness ==
    \E c \in Clients :
        /\ PresentsPendingInvitation(c)
        /\ Succeeded(c)
        /\ req[c].pre.db.invitations[InvitedBy(c)].role = "MEMBER"
        /\ invitations[InvitedBy(c)].status = "accepted"
        /\ \E m \in teamMembers : m.userId = Len(users) /\ m.role = "MEMBER"

\* an invitation is never removed, never changes team, email or role, and
\* never leaves the accepted status
InvitationsOneWay ==
    \A i \in 1..Len(invitations) :
        /\ i <= Len(invitations')
        /\ invitations'[i].teamId = invitations[i].teamId
        /\ invitations'[i].email = invitations[i].email
        /\ invitations'[i].role = invitations[i].role
        /\ invitations[i].status = "accepted" => invitations'[i].status = "accepted"

\* the request presents the id of an invitation that was already accepted
PresentsAcceptedInvitation(c) ==
    /\ Done(c, "signUp")
    /\ Truthy(req[c].inviteId)
    /\ InvitedBy(c) \in 1..Len(req[c].pre.db.invitations)
    /\ req[c].pre.db.invitations[InvitedBy(c)].status = "accepted"

StaleInvitationAsClaimed ==
    \A c \in Clients :
        PresentsAcceptedInvitation(c)
        => /\ req[c].res = Err(InvalidInvitation)
           /\ teamMembers = req[c].pre.db.teamMembers
           /\ invitations = req[c].pre.db.invitations

StaleInvitationRejected ==
    \A c \in Clients :
        PresentsAcceptedInvitation(c)
        => /\ req[c].res.kind = "error"
           /\ teamMembers = req[c].pre.db.teamMembers
           /\ invitations = req[c].pre.db.invitations
           /\ (/\ signUpSchema(req[c].email, req[c].password)
               /\ ~RegisteredIn(req[c].pre.db.users, req[c].email))
              => req[c].res = Err(InvalidInvitation)

\* C3, as claimed: an invitation never goes back from accepted to pending and
\* is never deleted, and every signUp that presents the id of an accepted
\* invitation returns "Invalid or expired invitation." without adding a
\* team-member row or changing the invitation.
C3_AsClaimed == [][InvitationsOneWay /\ StaleInvitationAsClaimed']_vars

\* C3, amended: an invitation never goes back from accepted to pending and is
\* never deleted; every signUp that presents the id of an accepted invitation
\* returns an error without adding a team-member row or changing the
\* invitation, and the error is "Invalid or expired invitation." when the
\* email and password pass the schema and no user row holds the email (an
\* already registered email gets "Failed to create user. Please try again.").
C3_AcceptedOnceOneWay == [][InvitationsOneWay /\ StaleInvitationRejected']_vars

\* b@x.com has accepted the invitation and has then left (the account is
\* soft-deleted, the email is free again); a sign-up as b@x.com with the same
\* inviteId is refused
C3_Witness ==
    \E c \in Clients :
        /\ PresentsAcceptedInvitation(c)
        /\ req[c].pre.db.invitations[InvitedBy(c)].email = req[c].email
        /\ ~RegisteredIn(req[c].pre.db.users, req[c].email)
        /\ req[c].res = Err(InvalidInvitation)
        /\ invitations[InvitedBy(c)].status = "accepted"

ActiveHolders(us, email) ==
    {i \in 1..Len(us) : us[i].email = email /\ us[i].deletedAt = Null}

\* C4: a signIn that fails because no user row has the email and a signIn
\* that fails because the password does not verify against the stored hash
\* return the same error, "Invalid email or password. Please try again.";
\* neither sets the session cookie nor writes to any table.
C4_SignInFailuresAlike ==
    \A c \in Clients :
        (/\ Done(c, "signIn")
         /\ signInSchema(req[c].email, req[c].password)
         /\ \A i \in 1..Len(req[c].pre.db.users) :
              req[c].pre.db.users[i].email = req[c].email
              => req[c].pre.db.users[i].passwordHash # <<"bcrypt", req[c].password>>)
        => /\ req[c].res = Err("Invalid email or password. Please try again.")
           /\ cookie[c] = req[c].pre.cookie
           /\ DB = req[c].pre.db

\* a sign-in with the email of a user and another password has failed
C4_Witness ==
    \E c \in Clients :
        /\ Done(c, "signIn")
        /\ \E i \in 1..Len(users) :
             /\ users[i].email = req[c].email
             /\ users[i].passwordHash # <<"bcrypt", req[c].password>>
        /\ req[c].res = Err("Invalid email or password. Please try again.")

\* the request is a deleteAccount of a signed-in user with that user's password
DeletesWithCorrectPassword(c) ==
    /\ Done(c, "deleteAccount")
    /\ req[c].user # 0
    /\ req[c].pre.db.users[req[c].user].passwordHash = <<"bcrypt", req[c].password>>

SoftDeleted(c) ==
    LET u == req[c].user
    IN  /\ Len(users) = Len(req[c].pre.db.users)
        /\ users[u].deletedAt # Null
        /\ users[u].email # req[c].pre.db.users[u].email

\* C5: no step of any action removes a user row, and a deleteAccount with the
\* correct password leaves the user's row in place with deletedAt set and an
\* email other than the one it had.
C5_SoftDeleteKeepsRow ==
    [][/\ Len(users') >= Len(users)
       /\ \A c \in Clients : (DeletesWithCorrectPassword(c) => SoftDeleted(c))']_vars

\* an account has been deleted: its row is there with the suffixed email
C5_Witness ==
    \E c \in Clients :
        /\ DeletesWithCorrectPassword(c)
        /\ req[c].res = Redirect("/sign-in")
        /\ users[req[c].user].deletedAt # Null
        /\ users[req[c].user].email =
             req[c].pre.db.users[req[c].user].email
                \o <<"-", ToString(req[c].user), "-deleted">>

\* the request is a valid signUp without inviteId for an email that a
\* soft-deleted account had when it was deleted and that no active user holds
ReusesDeletedEmail(c) ==
    /\ Done(c, "signUp")
    /\ signUpSchema(req[c].email, req[c].password)
    /\ ~Truthy(req[c].inviteId)
    /\ \E d \in softDeleted :
         /\ d.email = req[c].email
         /\ d.id <= Len(req[c].pre.db.users)
         /\ req[c].pre.db.users[d.id].deletedAt # Null
    /\ ActiveHolders(req[c].pre.db.users, req[c].email) = {}

\* C6: once an account with email E is soft-deleted, a signUp with E (valid
\* password, no inviteId) is not refused on account of the deleted row: with
\* no active user holding E it creates a new user row with email E.
C6_DeletedEmailReusable ==
    \A c \in Clients :
        ReusesDeletedEmail(c)
        => /\ Succeeded(c)
           /\ Len(users) = Len(req[c].pre.db.users) + 1
           /\ users[Len(users)].email = req[c].email
           /\ users[Len(users)].deletedAt = Null

\* a@x.com has signed up, deleted the account and signed up again: two rows
C6_Witness ==
    \E c \in Clients :
        /\ ReusesDeletedEmail(c)
        /\ Succeeded(c)
        /\ \E i \in 1..Len(users) :
             /\ i < Len(users)
             /\ users[i].deletedAt # Null
             /\ [id |-> i, email |-> users[Len(users)].email] \in softDeleted

\* C7: an updatePassword whose newPassword equals its currentPassword returns
\* an error, leaves every stored passwordHash as it was and writes no
\* activity-log row; when both pass the schema and currentPassword verifies
\* against the stored hash, the error is the "must be different" one.
C7_SamePasswordRejected ==
    \A c \in Clients :
        (Done(c, "updatePassword") /\ req[c].newPassword = req[c].currentPassword)
        => /\ req[c].res.kind = "error"
           /\ users = req[c].pre.db.users
           /\ activityLogs = req[c].pre.db.activityLogs
           /\ (/\ req[c].user # 0
               /\ Len(req[c].newPassword) >= 8
               /\ req[c].pre.db.users[req[c].user].passwordHash
                    = <<"bcrypt", req[c].currentPassword>>)
              => req[c].res =
                   Err("New password must be different from the current password.")

\* a signed-in user has submitted the current password as the new one
C7_Witness ==
    \E c \in Clients :
        /\ Done(c, "updatePassword")
        /\ req[c].user # 0
        /\ req[c].newPassword = req[c].currentPassword
        /\ users[req[c].user].passwordHash = <<"bcrypt", req[c].currentPassword>>
        /\ req[c].res = Err("New password must be different from the current password.")

\* C8: removeTeamMember by a signed-in user who has no team-member row
\* returns {error: "User is not part of a team"} and changes no table.
C8_RemoveWithoutTeam ==
    \A c \in Clients :
        (/\ Done(c, "removeTeamMember")
         /\ req[c].user # 0
         /\ ~\E m \in req[c].pre.db.teamMembers : m.userId = req[c].user)
        => /\ req[c].res = Err("User is not part of a team")
           /\ DB = req[c].pre.db

\* a user without a team (the membership is gone, or never existed) has
\* called removeTeamMember
C8_Witness ==
    \E c \in Clients :
        /\ Done(c, "removeTeamMember")
        /\ req[c].user # 0
        /\ ~\E m \in teamMembers : m.userId = req[c].user
        /\ req[c].res = Err("User is not part of a team")

\* C9: in every reachable state, whatever the interleaving of the requests,
\* no two user rows with deletedAt null have the same email.
C9_ActiveEmailsUnique ==
    \A i, j \in 1..Len(users) :
        (i # j /\ users[i].deletedAt = Null /\ users[j].deletedAt = Null)
        => users[i].email # users[j].email

\* two requests were in flight at once and one of them, a signUp or an
\* updateAccount that had passed its checks, was refused by the database
\* because an active user already held the email
C9_Witness ==
    \E c, d \in Clients :
        /\ c # d
        /\ req[c].op \in {"signUp", "updateAccount"}
        /\ req[c].pc = "done"
        /\ req[c].res = Thrown("users_email_unique")
        /\ req[d].op \in {"signUp", "updateAccount"}
        /\ req[d].pc = "done"
        /\ req[d].res.kind \in {"redirect", "checkout", "success"}
        /\ req[d].email = req[c].email
        /\ ActiveHolders(users, req[c].email) # {}

\* C10: a signUp with the email of an active user returns an error and
\* changes nothing: no table, and not the session cookie.
C10_RegisteredEmailRejected ==
    \A c \in Clients :
        (Done(c, "signUp") /\ ActiveHolders(req[c].pre.db.users, req[c].email) # {})
        => /\ req[c].res.kind = "error"
           /\ DB = req[c].pre.db
           /\ cookie[c] = req[c].pre.cookie

\* a sign-up with a valid form and the email of an active user was refused
C10_Witness ==
    \E c \in Clients :
        /\ Done(c, "signUp")
        /\ signUpSchema(req[c].email, req[c].password)
        /\ ActiveHolders(users, req[c].email) # {}
        /\ req[c].res = Err("Failed to create user. Please try again.")

\* a user row that is active, has no team-member row and no activity-log row
Orphan(db, i) ==
    /\ db.users[i].deletedAt = Null
    /\ ~\E m \in db.teamMembers : m.userId = i
    /\ ~\E k \in 1..Len(db.activityLogs) : db.activityLogs[k].userId = i

\* the request is a valid signUp for an unregistered email with an inviteId
\* that matched no pending invitation for that email
PresentsInvalidInvitation(c) ==
    /\ Done(c, "signUp")
    /\ signUpSchema(req[c].email, req[c].password)
    /\ ~RegisteredIn(req[c].pre.db.users, req[c].email)
    /\ Truthy(req[c].inviteId)
    /\ ~\E i \in 1..Len(req[c].pre.db.invitations) :
           /\ i = InvitedBy(c)
           /\ req[c].pre.db.invitations[i].email = req[c].email
           /\ req[c].pre.db.invitations[i].status = "pending"

\* C11: a signUp whose inviteId identifies no pending invitation for its email
\* returns "Invalid or expired invitation." with the user row inserted and
\* kept: the row has no team-member row, no team was created, no session is
\* issued and no activity-log row is written; and a signUp with the email of
\* such a row is refused as already registered, writing nothing.
C11_NoRollback ==
    \A c \in Clients :
        /\ PresentsInvalidInvitation(c)
           => /\ req[c].res = Err("Invalid or expired invitation.")
              /\ Len(users) = Len(req[c].pre.db.users) + 1
              /\ SubSeq(users, 1, Len(users) - 1) = req[c].pre.db.users
              /\ users[Len(users)].email = req[c].email
              /\ Orphan(DB, Len(users))
              /\ teams = req[c].pre.db.teams
              /\ teamMembers = req[c].pre.db.teamMembers
              /\ invitations = req[c].pre.db.invitations
              /\ activityLogs = req[c].pre.db.activityLogs
              /\ cookie[c] = req[c].pre.cookie
        /\ (/\ Done(c, "signUp")
            /\ \E i \in 1..Len(req[c].pre.db.users) :
                 /\ req[c].pre.db.users[i].email = req[c].email
                 /\ Orphan(req[c].pre.db, i))
           => /\ req[c].res.kind = "error"
              /\ DB = req[c].pre.db
              /\ cookie[c] = req[c].pre.cookie

\* a sign-up that presented invitation 1 after it was accepted has left a
\* user row behind, and a second sign-up with that email, without inviteId,
\* was refused as already registered
C11_Witness ==
    \E c \in Clients :
        /\ Done(c, "signUp")
        /\ signUpSchema(req[c].email, req[c].password)
        /\ ~Truthy(req[c].inviteId)
        /\ req[c].res = Err("Failed to create user. Please try again.")
        /\ \E i \in 1..Len(users) :
             /\ users[i].email = req[c].email
             /\ Orphan(DB, i)
             /\ i = Len(users)
        /\ \E k \in 1..Len(invitations) : invitations[k].status = "accepted"

\* the caller's team, as the request found it
CallerTeams(c) ==
    {m.teamId : m \in {x \in req[c].pre.db.teamMembers : x.userId = req[c].user}}

\* the target email belongs to a member of team t
TargetIsMember(c, t) ==
    \E m \in req[c].pre.db.teamMembers :
        /\ m.teamId = t
        /\ req[c].pre.db.users[m.userId].email = req[c].email

\* the target email has a pending invitation for team t
TargetIsInvited(c, t) ==
    \E i \in 1..Len(req[c].pre.db.invitations) :
        /\ req[c].pre.db.invitations[i].email = req[c].email
        /\ req[c].pre.db.invitations[i].teamId = t
        /\ req[c].pre.db.invitations[i].status = "pending"

\* C12: an inviteTeamMember by a signed-in member of a team, with a valid
\* form, returns an error and writes nothing when the target email is the
\* email of a member of that team or has a pending invitation for that team;
\* otherwise it appends exactly one invitation (pending, the caller's team,
\* the given email and role, invitedBy the caller) and changes no other
\* invitation.
C12_InviteRejectsOrInserts ==
    \A c \in Clients :
        (/\ Done(c, "inviteTeamMember")
         /\ req[c].user # 0
         /\ inviteTeamMemberSchema(req[c].email, req[c].role))
        => \A t \in CallerTeams(c) :
             IF TargetIsMember(c, t) \/ TargetIsInvited(c, t)
             THEN /\ req[c].res.kind = "error"
                  /\ DB = req[c].pre.db
             ELSE /\ req[c].res = Ok("Invitation sent successfully")
                  /\ invitations =
                       Append(req[c].pre.db.invitations,
                              [teamId |-> t, email |-> req[c].email,
                               role |-> req[c].role, invitedBy |-> req[c].user,
                               status |-> "pending"])

\* b@x.com has joined team 1 by invitation; the owner has invited b@x.com
\* again and was refused because b@x.com is a member
C12_Witness ==
    \E c \in Clients :
        /\ Done(c, "inviteTeamMember")
        /\ req[c].user # 0
        /\ \E t \in CallerTeams(c) :
             /\ TargetIsMember(c, t)
             /\ ~TargetIsInvited(c, t)
             /\ users[req[c].user].email # req[c].email
        /\ req[c].res = Err("User is already a member of this team")
        /\ invitations = req[c].pre.db.invitations

\* the client's request is a deleteAccount of a signed-in user with that
\* user's password, in flight or done
DeletingAccount(c) ==
    /\ req[c].op = "deleteAccount"
    /\ req[c].user # 0
    /\ req[c].pre.db.users[req[c].user].passwordHash = <<"bcrypt", req[c].password>>

\* the teams of the user when the request started
TeamsBefore(c) == CallerTeams(c)

AccountLogged(c) ==
    /\ Len(activityLogs) = Len(req[c].pre.db.activityLogs) + 1
    /\ activityLogs[Len(activityLogs)].action = "DELETE_ACCOUNT"
    /\ activityLogs[Len(activityLogs)].userId = req[c].user
    /\ activityLogs[Len(activityLogs)].teamId \in TeamsBefore(c)

AccountSoftDeleted(c) == users[req[c].user].deletedAt # Null

MembershipRemoved(c) ==
    ~\E m \in teamMembers : m.userId = req[c].user /\ m.teamId \in TeamsBefore(c)

SessionCleared(c) == cookie[c] = 0

\* C13: in a deleteAccount with the correct password each effect finds the
\* earlier ones done: the soft delete comes after the DELETE_ACCOUNT log row
\* (written if the user has a team), the removal of the team-member row after
\* the soft delete, the clearing of the session cookie after the removal, and
\* the redirect to /sign-in after the clearing; when it is done the user has
\* deletedAt set, no team-member row in the team and no session cookie.  A
\* deleteAccount with another password returns an error and has no effect.
C13_DeleteAccountOrder ==
    \A c \in Clients :
        /\ DeletingAccount(c)
           => /\ AccountSoftDeleted(c) => (TeamsBefore(c) # {} => AccountLogged(c))
              /\ (TeamsBefore(c) # {} /\ MembershipRemoved(c)) => AccountSoftDeleted(c)
              /\ SessionCleared(c) => AccountSoftDeleted(c) /\ MembershipRemoved(c)
              /\ req[c].pc = "done"
                 => /\ req[c].res = Redirect("/sign-in")
                    /\ SessionCleared(c)
                    /\ AccountSoftDeleted(c)
                    /\ MembershipRemoved(c)
                    /\ TeamsBefore(c) = {} => activityLogs = req[c].pre.db.activityLogs
        /\ (/\ Done(c, "deleteAccount")
            /\ req[c].user # 0
            /\ req[c].pre.db.users[req[c].user].passwordHash
                 # <<"bcrypt", req[c].password>>)
           => /\ req[c].res.kind = "error"
              /\ DB = req[c].pre.db
              /\ cookie[c] = req[c].pre.cookie

\* the owner of a team has deleted the account: logged, soft-deleted, out of
\* the team, signed out and redirected
C13_Witness ==
    \E c \in Clients :
        /\ DeletingAccount(c)
        /\ req[c].pc = "done"
        /\ TeamsBefore(c) # {}
        /\ AccountLogged(c)
        /\ AccountSoftDeleted(c)
        /\ MembershipRemoved(c)
        /\ SessionCleared(c)
        /\ req[c].res = Redirect("/sign-in")

\* the form of the request fails the schema of its action
SchemaFails(c) ==
    CASE req[c].op = "signIn" -> ~signInSchema(req[c].email, req[c].password)
      [] req[c].op = "signUp" -> ~signUpSchema(req[c].email, req[c].password)
      [] req[c].op = "updatePassword" ->
           ~updatePasswordSchema(req[c].currentPassword, req[c].newPassword,
                                 req[c].confirmPassword)
      [] req[c].op = "deleteAccount" -> ~deleteAccountSchema(req[c].password)
      [] req[c].op = "updateAccount" -> ~updateAccountSchema(req[c].name, req[c].email)
      [] req[c].op = "removeTeamMember" -> ~removeTeamMemberSchema(req[c].memberId)
      [] req[c].op = "inviteTeamMember" ->
           ~inviteTeamMemberSchema(req[c].email, req[c].role)
      [] OTHER -> FALSE

UserRequiring ==
    {"updatePassword", "deleteAccount", "updateAccount", "removeTeamMember",
     "inviteTeamMember"}

\* the request came with the session cookie of a user who is not soft-deleted
HadSession(c) ==
    /\ req[c].pre.cookie # 0
    /\ req[c].pre.cookie <= Len(req[c].pre.db.users)
    /\ req[c].pre.db.users[req[c].pre.cookie].deletedAt = Null

NewLogs(c) ==
    SubSeq(activityLogs, Len(req[c].pre.db.activityLogs) + 1, Len(activityLogs))

CountLogs(logs, type) == Cardinality({k \in 1..Len(logs) : logs[k].action = type})

\* C16: a signUp with a valid form, an unregistered email, no inviteId and no
\* checkout redirect writes two activity-log rows and no more, one
\* CREATE_TEAM and one SIGN_UP, both with the new team and the new user; it
\* sets the session cookie to the new user and redirects to /dashboard.
C16_SignUpLogsAndSession ==
    \A c \in Clients :
        (/\ Done(c, "signUp")
         /\ signUpSchema(req[c].email, req[c].password)
         /\ ~RegisteredIn(req[c].pre.db.users, req[c].email)
         /\ ~Truthy(req[c].inviteId)
         /\ ~req[c].checkout)
        => /\ req[c].res = [kind |-> "redirect", msg |-> "/dashboard"]
           /\ Len(users) = Len(req[c].pre.db.users) + 1
           /\ Len(teams) = Len(req[c].pre.db.teams) + 1
           /\ SubSeq(activityLogs, 1, Len(req[c].pre.db.activityLogs))
                = req[c].pre.db.activityLogs
           /\ Len(NewLogs(c)) = 2
           /\ CountLogs(NewLogs(c), "CREATE_TEAM") = 1
           /\ CountLogs(NewLogs(c), "SIGN_UP") = 1
           /\ \A k \in 1..Len(NewLogs(c)) :
                /\ NewLogs(c)[k].teamId = Len(teams)
                /\ NewLogs(c)[k].userId = Len(users)
           /\ cookie[c] = Len(users)

\* a second user has signed up on the browser where the first is signed in:
\* the log has four rows and the session is the second user's
C16_Witness ==
    \E c \in Clients :
        /\ Done(c, "signUp")
        /\ ~Truthy(req[c].inviteId)
        /\ ~req[c].checkout
        /\ req[c].res = [kind |-> "redirect", msg |-> "/dashboard"]
        /\ req[c].pre.cookie = 1
        /\ cookie[c] = 2
        /\ Len(activityLogs) = 4
        /\ activityLogs[3] = [teamId |-> 2, userId |-> 2, action |-> "CREATE_TEAM",
                               ipAddress |-> ""]
        /\ activityLogs[4] = [teamId |-> 2, userId |-> 2, action |-> "SIGN_UP",
                               ipAddress |-> ""]

\* C17: a removeTeamMember removes no team-member row of a team other than
\* the caller's and adds or changes none: the rows it removes, at most one,
\* have the given memberId and the caller's team.
C17_RemoveScopedToTeam ==
    \A c \in Clients :
        (Done(c, "removeTeamMember") /\ req[c].user # 0)
        => LET removed == req[c].pre.db.teamMembers \ teamMembers
           IN  /\ teamMembers \subseteq req[c].pre.db.teamMembers
               /\ \A m \in removed :
                    m.id = req[c].memberId /\ m.teamId \in CallerTeams(c)
               /\ Cardinality(removed) <= 1
               /\ {m \in teamMembers : m.teamId \notin CallerTeams(c)}
                    = {m \in req[c].pre.db.teamMembers : m.teamId \notin CallerTeams(c)}

\* a member of one team has called removeTeamMember with the id of a row of
\* another team: the call reports success and the row is still there
C17_Witness ==
    \E c \in Clients :
        /\ Done(c, "removeTeamMember")
        /\ req[c].user # 0
        /\ CallerTeams(c) # {}
        /\ \E m \in teamMembers :
             m.id = req[c].memberId /\ m.teamId \notin CallerTeams(c)
        /\ req[c].res = Ok("Team member removed successfully")

\* C18: in every reachable state, whatever the interleaving of the requests,
\* two team-member rows with the same user and the same team are one row.
C18_OneMembershipPerUserAndTeam ==
    \A m1, m2 \in teamMembers :
        (m1.userId = m2.userId /\ m1.teamId = m2.teamId) => m1 = m2

\* two requests were in flight at once, one of them a signUp that has joined
\* a team, and a team now has two members
C18_Witness ==
    /\ \A c \in Clients : req[c].pc = "done"
    /\ \E c \in Clients : req[c].op = "signUp" /\ Succeeded(c)
    /\ \E m1, m2 \in teamMembers :
         m1.teamId = m2.teamId /\ m1.userId # m2.userId

\* the step keeps every activity-log row in place and adds at most rows that
\* name a team and a user
LogAppendOnly ==
    /\ Len(activityLogs') >= Len(activityLogs)
    /\ SubSeq(activityLogs', 1, Len(activityLogs)) = activityLogs
    /\ \A k \in (Len(activityLogs) + 1)..Len(activityLogs') :
         /\ activityLogs'[k].teamId \in 1..Len(teams')
         /\ activityLogs'[k].userId \in 1..Len(users')

\* the request was made by (signIn: for) a user who had no team-member row,
\* and the handler has run to its end
ActedWithoutTeam(c) ==
    /\ req[c].pc = "done"
    /\ req[c].op \in {"signIn", "signOut", "updatePassword", "updateAccount",
                       "deleteAccount"}
    /\ req[c].user # 0
    /\ req[c].res.kind \in {"redirect", "checkout", "success"}
    /\ ~\E m \in req[c].pre.db.teamMembers : m.userId = req[c].user

\* C19: no step of any action changes or removes an activity-log row; a step
\* only appends rows, each with a team and a user; and an action carried out
\* by a user without a team writes no row.
C19_LogAppendOnly ==
    [][/\ LogAppendOnly
       /\ \A c \in Clients :
            (ActedWithoutTeam(c) => activityLogs = req[c].pre.db.activityLogs)']_vars

\* a user without a team has updated the account: done, and nothing logged
C19_Witness ==
    \E c \in Clients :
        /\ ActedWithoutTeam(c)
        /\ req[c].op = "updateAccount"
        /\ users[req[c].user].email = req[c].email
        /\ Len(activityLogs) > 0
        /\ activityLogs = req[c].pre.db.activityLogs

\* C20: after a signUp through a pending invitation for its email, the role
\* on the new user's row is the invitation's role.
C20_UserRowRoleOverridden ==
    \A c \in Clients :
        (/\ PresentsPendingInvitation(c)
         /\ Succeeded(c)
         /\ Len(users) = Len(req[c].pre.db.users) + 1)
        => users[Len(users)].role = req[c].pre.db.invitations[InvitedBy(c)].role

\* the user rows that the submitted email and password identify
Verified(c) ==
    {u \in 1..Len(req[c].pre.db.users) :
        /\ req[c].pre.db.users[u].email = req[c].email
        /\ req[c].pre.db.users[u].passwordHash = <<"bcrypt", req[c].password>>}

\* C24: a signIn that succeeds has found a user row with the submitted email
\* whose passwordHash the submitted password verifies against; the session
\* cookie is that user's, and the only write is at most one SIGN_IN log row
\* for that user.  A signIn that fails leaves the session cookie and every
\* table as they were.
C24_SessionOnlyWhenVerified ==
    \A c \in Clients :
        Done(c, "signIn")
        => IF Succeeded(c)
           THEN /\ cookie[c] \in Verified(c)
                /\ users = req[c].pre.db.users
                /\ teams = req[c].pre.db.teams
                /\ teamMembers = req[c].pre.db.teamMembers
                /\ invitations = req[c].pre.db.invitations
                /\ \/ activityLogs = req[c].pre.db.activityLogs
                   \/ /\ Len(activityLogs) = Len(req[c].pre.db.activityLogs) + 1
                      /\ SubSeq(activityLogs, 1, Len(activityLogs) - 1)
                           = req[c].pre.db.activityLogs
                      /\ activityLogs[Len(activityLogs)].action = "SIGN_IN"
                      /\ activityLogs[Len(activityLogs)].userId = cookie[c]
           ELSE /\ req[c].res.kind = "error"
                /\ cookie[c] = req[c].pre.cookie
                /\ DB = req[c].pre.db

\* on a browser where one user is signed in, another user has signed in:
\* the session is now the second user's and SIGN_IN is logged for that user
C24_Witness ==
    \E c \in Clients :
        /\ Done(c, "signIn")
        /\ Succeeded(c)
        /\ req[c].pre.cookie # 0
        /\ req[c].pre.cookie # cookie[c]
        /\ cookie[c] \in Verified(c)
        /\ activityLogs[Len(activityLogs)].action = "SIGN_IN"
        /\ activityLogs[Len(activityLogs)].userId = cookie[c]

\* the request is a signUp that found the invitation pending and whose user
\* now has a team-member row in the invitation's team
JoinedThrough(c, i) ==
    /\ req[c].op = "signUp"
    /\ req[c].invitation = i
    /\ \E m \in teamMembers :
         m.userId = req[c].user /\ m.teamId = invitations[i].teamId

AcceptedFor(t) ==
    Cardinality({i \in 1..Len(invitations) :
                    invitations[i].teamId = t /\ invitations[i].status = "accepted"})

AcceptLogsFor(t) ==
    Cardinality({k \in 1..Len(activityLogs) :
                    /\ activityLogs[k].teamId = t
                    /\ activityLogs[k].action = "ACCEPT_INVITATION"})

\* C22: of two signUp calls in flight at once with the same inviteId and the
\* same email, at most one gets a team-member row through the invitation;
\* and a team never has more ACCEPT_INVITATION log rows than accepted
\* invitations: no invitation admits two users.
C22_InvitationAdmitsOne ==
    /\ \A c, d \in Clients : \A i \in 1..Len(invitations) :
         (/\ c # d
          /\ req[c].op = "signUp"
          /\ req[d].op = "signUp"
          /\ req[c].inviteId = req[d].inviteId
          /\ req[c].email = req[d].email)
         => ~(JoinedThrough(c, i) /\ JoinedThrough(d, i))
    /\ \A t \in 1..Len(teams) : AcceptLogsFor(t) <= AcceptedFor(t)

\* two sign-ups as b@x.com with the inviteId of b@x.com's pending invitation
\* were in flight together and both passed the existing-user test; one has
\* joined the team, the other was stopped at its insert of the user row
C22_Witness ==
    \E c, d \in Clients : \E i \in 1..Len(invitations) :
        /\ c # d
        /\ req[c].op = "signUp"
        /\ req[d].op = "signUp"
        /\ req[c].inviteId = req[d].inviteId
        /\ req[c].email = req[d].email
        /\ invitations[i].email = req[c].email
        /\ ~RegisteredIn(req[c].pre.db.users, req[c].email)
        /\ ~RegisteredIn(req[d].pre.db.users, req[d].email)
        /\ JoinedThrough(c, i)
        /\ req[c].pc = "done"
        /\ Succeeded(c)
        /\ req[d].pc = "done"
        /\ req[d].res = Thrown("users_email_unique")

\* C21: in every reachable state, whatever the interleaving of the requests,
\* no two pending invitations have the same team and the same email.
C21_OnePendingPerTeamAndEmail ==
    \A i, j \in 1..Len(invitations) :
        (/\ i # j
         /\ invitations[i].status = "pending"
         /\ invitations[j].status = "pending"
         /\ invitations[i].teamId = invitations[j].teamId)
        => invitations[i].email # invitations[j].email

\* the request is a signIn with the email that a soft-deleted account had
\* when it was deleted and with that account's password, made after the
\* deleteAccount was answered and while no active user holds the email
SignsInAsDeleted(c) ==
    /\ Done(c, "signIn")
    /\ ActiveHolders(req[c].pre.db.users, req[c].email) = {}
    /\ \E d \in softDeleted :
         /\ d.email = req[c].email
         /\ d.id <= Len(req[c].pre.db.users)
         /\ req[c].pre.db.users[d.id].deletedAt # Null
         /\ req[c].pre.db.users[d.id].passwordHash = <<"bcrypt", req[c].password>>
         /\ \A e \in Clients :
              ~(req[e].op = "deleteAccount" /\ req[e].user = d.id)

\* C23: once a deleteAccount has completed for a user whose email was E, a
\* signIn with E and that user's password, while no active account holds E,
\* returns "Invalid email or password. Please try again." and leaves the
\* session cookie as it was; and no signIn sets the session cookie to a
\* user who was soft-deleted when it started.
C23_DeletedCannotSignIn ==
    \A c \in Clients :
        /\ SignsInAsDeleted(c)
           => /\ req[c].res = Err("Invalid email or password. Please try again.")
              /\ cookie[c] = req[c].pre.cookie
        /\ (Done(c, "signIn") /\ Succeeded(c))
           => req[c].pre.db.users[cookie[c]].deletedAt = Null

====
